---- MODULE Spec2Model ----
(***************************************************************************)
(* gnb.py: an object/graph store on sqlite.  Caller threads run the GNB    *)
(* methods; every SQL statement goes through ConnectionManager.query,      *)
(* which puts a Query on a FIFO queue and blocks on its event; one worker  *)
(* thread owns the connection and runs the queued statements.              *)
(***************************************************************************)
EXTENDS Integers, Sequences, FiniteSets, TLC

VARIABLES
  obj,          \* table obj: set of rows [oid, data], primary key oid
  edges,        \* table edges: set of rows, primary key (oid1, oid2, type)
  edge_config,  \* table edge_config: set of rows, primary key type
  configs,      \* GNB.configs: the in-memory dict type -> EdgeConfig
  queue,        \* ConnectionManager.queue: sequence of Query objects
  wpc,          \* where the worker thread is in run / Query.go
  cur,          \* the Query the worker took from the queue
  dirty,        \* the connection holds changes it has not committed
  th,           \* per caller thread: the call it is in and what is left of it
  event,        \* per caller thread: its Query's event is set
  results,      \* per caller thread: its Query's results
  pending,      \* history: threads whose Query was put and not yet signalled, oldest first
  calls,        \* history: number of public calls started, and whether one was an edge call
  env           \* the scenario: names the callers and the arguments they use (never changes)

vars == <<obj, edges, edge_config, configs, queue, wpc, cur, dirty, th, event,
          results, pending, calls, env>>

store == <<obj, edges, edge_config>>

\* Bound on the number of public calls made in one behaviour.
MaxCalls == 3

Oids == {"a", "b", "c"}
Types == {"T", "T2"}
Threads == {"t1", "t2"}

----------------------------------------------------------------------------
\* Python values

\* An optional integer: None is <<>>, n is <<n>>.
None == <<>>
Some(n) == <<n>>

\* Truth value of an optional integer (None and 0 are false).
TruthyInt(x) == x # None /\ x[1] # 0

\* A boolean-like field holds "None", "False" or "True"; sqlite stores the
\* booleans as 0/1 and Python reads 1 == True, 0 == False.
PyBools == {"None", "False", "True"}
Truthy(b) == b = "True"

\* json.dumps / json.loads: the stored text is not the value.
JsonDumps(v) == <<"json", v>>
JsonLoads(s) == s[2]

\* All orderings of a finite set (the iteration order of a dict, or of a
\* select without order by, is not fixed by its contents).
Perms(S) == {s \in [1..Cardinality(S) -> S] : \A i, j \in 1..Cardinality(S) : i # j => s[i] # s[j]}

Range(s) == {s[i] : i \in 1..Len(s)}

----------------------------------------------------------------------------
\* EdgeConfig and Edge

EdgeConfig(type, unique, bidi, inverse_type, inverse_unique) ==
  [type |-> type, unique |-> unique, bidi |-> bidi,
   inverse_type |-> inverse_type, inverse_unique |-> inverse_unique]

\* The assertion of EdgeConfig.__init__.
ConfigAssert(bidi, inverse_type) == ~(Truthy(bidi) /\ inverse_type # "None")

NoConfig == EdgeConfig("None", "None", "None", "None", "None")

get_inverse(c) ==
  IF c.inverse_type = "None" THEN NoConfig
  ELSE EdgeConfig(c.inverse_type, c.inverse_unique, c.bidi, c.type, c.unique)

Edge(oid1, oid2, type, order, data) ==
  [oid1 |-> oid1, oid2 |-> oid2, type |-> type, order |-> order, data |-> data]

Key(e) == <<e.oid1, e.oid2, e.type>>

----------------------------------------------------------------------------
\* The SQL statements of the program, as functions of the tables

\* insert into edges ...: a second row with the same primary key is refused.
InsertEdgeFails(E, row) == \E r \in E : Key(r) = Key(row)
\* A variant that keeps one row per (oid1, type), as a unique index with
\* "insert or replace" would.
InsertEdgeReplaceSource(E, row) ==
  {r \in E : ~(r.oid1 = row.oid1 /\ r.type = row.type)} \cup {row}

InsertEdge(E, row) == E \cup {row}

\* delete from edges where oid1=? and oid2=? and type=?
DeleteEdge(E, k) == {r \in E : Key(r) # k}

\* order by order_ (ascending; sqlite puts NULL first)
OrderLeq(x, y) == x = None \/ (y # None /\ x[1] <= y[1])

\* select ... from edges where oid1=? and type=? [and order_ >= ?] [and order_ <= ?]
\* with the bounds that edge_get appended; a comparison with a NULL order_ is not true.
SelectEdgesWhere(E, oid, type, lo, hi) ==
  {r \in E : /\ r.oid1 = oid
             /\ r.type = type
             /\ (lo # None => (r.order # None /\ r.order[1] >= lo[1]))
             /\ (hi # None => (r.order # None /\ r.order[1] <= hi[1]))}

SortedByOrder(S) ==
  {s \in Perms(S) : \A i, j \in 1..Len(s) : i < j => OrderLeq(s[i].order, s[j].order)}

\* insert or replace into obj / edge_config: the row with the same key is replaced.
UpsertObj(O, row) == {r \in O : r.oid # row.oid} \cup {row}
UpsertConfig(C, row) == {r \in C : r.type # row.type} \cup {row}

----------------------------------------------------------------------------
\* The callers: who calls, and with which arguments

\* The arguments of register_edge_type: every EdgeConfig over the two types.
AllCfgs ==
  {EdgeConfig(ty, u, b, it, iu) :
     ty \in Types, u \in {"False", "True"}, b \in {"False", "True"},
     it \in Types \cup {"None"}, iu \in {"None", "True"}}

Cfgs == {a \in AllCfgs : a.inverse_type = "None" => a.inverse_unique = "None"}

\* One caller; the edge types are registered before the first edge call.
SeqEnv ==
  [callers |-> {"t1"},
   regFirst |-> TRUE,
   cfgs |-> Cfgs,
   adds |-> {Edge(p[1], p[2], ty, None, "x") :
               p \in {<<"a", "b">>, <<"a", "c">>, <<"c", "b">>, <<"a", "a">>}, ty \in Types}
            \cup {Edge("a", "b", "T", Some(1), "y")},
   rems |-> {<<"a", "b", "T">>, <<"a", "b", "T2">>, <<"b", "a", "T2">>},
   gets |-> {[oid |-> "a", type |-> "T", start |-> None, end |-> None]},
   ones |-> {[oid |-> "a", type |-> "T"]},
   puts |-> {[oid |-> "a", value |-> "x"]},
   oids |-> {"a"}]

\* One caller reading edges of a plain type T by order; T2 gets registered unique.
PlainT == EdgeConfig("T", "False", "False", "None", "None")

RangeEnv ==
  [callers |-> {"t1"},
   regFirst |-> FALSE,
   cfgs |-> {EdgeConfig("T2", "True", "False", "None", "None"),
             EdgeConfig("T2", "True", "True", "T", "None")},
   adds |-> {Edge("a", "b", "T", o, "x") : o \in {Some(-1), Some(1)}}
            \cup {Edge("a", "c", "T", o, "x") : o \in {None, Some(2)}}
            \cup {Edge("a", d, "T2", None, "x") : d \in {"b", "c"}},
   rems |-> {<<"a", "b", "T">>, <<"a", "b", "T2">>},
   gets |-> {[oid |-> "a", type |-> "T", start |-> lo, end |-> hi] :
               lo, hi \in {None, Some(-1), Some(0), Some(1)}},
   ones |-> {[oid |-> "a", type |-> "T"]},
   puts |-> {[oid |-> "a", value |-> "x"]},
   oids |-> {"a"}]

\* Two callers adding edges from a of the unique type T; T2 gets registered.
UniqueT == EdgeConfig("T", "True", "False", "None", "None")

ConcEnv ==
  [callers |-> {"t1", "t2"},
   regFirst |-> FALSE,
   cfgs |-> {EdgeConfig("T2", "False", "False", "None", "None"),
             EdgeConfig("T2", "False", "True", "T", "None")},
   adds |-> {Edge("a", "b", "T", None, "x"), Edge("a", "c", "T", None, "x"),
             Edge("a", "b", "T2", None, "x")},
   rems |-> {<<"a", "b", "T">>, <<"a", "b", "T2">>},
   gets |-> {[oid |-> "a", type |-> "T", start |-> None, end |-> None]},
   ones |-> {[oid |-> "a", type |-> "T"]},
   puts |-> {[oid |-> "a", value |-> "x"]},
   oids |-> {"a"}]

\* Two callers working on the pair a, b of the bidi type T2 and of the plain
\* type T, which gets registered again as unique and bidi.
BidiT2 == EdgeConfig("T2", "False", "True", "None", "None")

MirrorEnv ==
  [callers |-> {"t1", "t2"},
   regFirst |-> FALSE,
   cfgs |-> {EdgeConfig("T", "True", "True", "None", "None"),
             EdgeConfig("T", "True", "True", "T2", "None")},
   adds |-> {Edge("b", "a", "T", None, "x"), Edge("a", "b", "T2", None, "x")},
   rems |-> {<<"a", "b", "T">>, <<"a", "b", "T2">>},
   gets |-> {[oid |-> "a", type |-> "T2", start |-> None, end |-> None]},
   ones |-> {[oid |-> "a", type |-> "T2"]},
   puts |-> {[oid |-> "a", value |-> "x"]},
   oids |-> {"a"}]

\* The scenario named by env.
Env == CASE env = "seq" -> SeqEnv
         [] env = "range" -> RangeEnv
         [] env = "conc" -> ConcEnv
         [] env = "mirror" -> MirrorEnv

----------------------------------------------------------------------------
\* Query objects and ConnectionManager.query

Query(t, stmt) == [t |-> t, s |-> stmt]
NoQuery == Query("none", [sql |-> "none"])

\* A variant that takes the newest entry (a LifoQueue).
QueueGetNewest(q) == [item |-> q[Len(q)], rest |-> SubSeq(q, 1, Len(q) - 1)]

\* Queue.get: the oldest entry.
QueueGet(q) == [item |-> Head(q), rest |-> Tail(q)]

\* Queue.put
QueuePut(q, x) == Append(q, x)

Without(s, t) == SelectSeq(s, LAMBDA x : x # t)

\* ConnectionManager.query up to the wait: a new Query is put on the queue and
\* thread t blocks in Query.get until the event is set; k says what the
\* caller does with the results, rest is what is left of the call after that
\* (base is th, or th with the call just entered).
Submit(t, base, stmt, k, rest) ==
  /\ queue' = QueuePut(queue, Query(t, stmt))
  /\ event' = [event EXCEPT ![t] = FALSE]
  /\ pending' = Append(pending, t)
  /\ th' = [base EXCEPT ![t].pc = "wait", ![t].k = k, ![t].todo = rest]
  /\ UNCHANGED <<results>>

\* Query.get returned in thread t.
Woken(t, k) == th[t].pc = "wait" /\ th[t].k = k /\ event[t]

----------------------------------------------------------------------------
\* The worker thread: ConnectionManager.run and Query.go

IsWrite(stmt) == stmt.sql \in {"insert_edge", "delete_edge", "upsert_obj", "delete_obj", "upsert_config"}

\* c.execute raises (sqlite3.IntegrityError) and nothing in run catches it.
Raises(stmt) == stmt.sql = "insert_edge" /\ InsertEdgeFails(edges, stmt.row)

\* The rows c.fetchall() can return.
Fetched(stmt) ==
  CASE stmt.sql = "select_edges" ->
         SortedByOrder(SelectEdgesWhere(edges, stmt.oid, stmt.type, stmt.lo, stmt.hi))
    [] stmt.sql = "select_obj" -> Perms({r \in obj : r.oid = stmt.oid})
    [] stmt.sql = "select_configs" -> Perms(edge_config)
    [] OTHER -> {<<>>}

\* A store in which deleting an object also deletes the edges from and to it.
EdgesAfterCascade(stmt) ==
  CASE stmt.sql = "insert_edge" -> InsertEdge(edges, stmt.row)
    [] stmt.sql = "delete_edge" -> DeleteEdge(edges, stmt.k)
    [] stmt.sql = "delete_obj" -> {r \in edges : r.oid1 # stmt.oid /\ r.oid2 # stmt.oid}
    [] OTHER -> edges

EdgesAfter(stmt) ==
  CASE stmt.sql = "insert_edge" -> InsertEdge(edges, stmt.row)
    [] stmt.sql = "delete_edge" -> DeleteEdge(edges, stmt.k)
    [] OTHER -> edges

ObjAfter(stmt) ==
  CASE stmt.sql = "upsert_obj" -> UpsertObj(obj, stmt.row)
    [] stmt.sql = "delete_obj" -> {r \in obj : r.oid # stmt.oid}
    [] OTHER -> obj

ConfigAfter(stmt) ==
  IF stmt.sql = "upsert_config" THEN UpsertConfig(edge_config, stmt.row) ELSE edge_config

\* query = self.queue.get()
WorkerGet ==
  /\ wpc = "get"
  /\ queue # <<>>
  /\ cur' = QueueGet(queue).item
  /\ queue' = QueueGet(queue).rest
  /\ wpc' = "execute"
  /\ UNCHANGED <<obj, edges, edge_config, configs, dirty, th, event, results, pending, calls, env>>

\* c.execute(self.sql, self.args); self.results = c.fetchall()
WorkerExecute ==
  /\ wpc = "execute"
  /\ ~Raises(cur.s)
  /\ \E rows \in Fetched(cur.s) : results' = [results EXCEPT ![cur.t] = rows]
  /\ edges' = EdgesAfter(cur.s)
  /\ obj' = ObjAfter(cur.s)
  /\ edge_config' = ConfigAfter(cur.s)
  /\ dirty' = (dirty \/ IsWrite(cur.s))
  /\ wpc' = "commit"
  /\ UNCHANGED <<configs, queue, cur, th, event, pending, calls, env>>

\* c.execute raises: the exception leaves run and the worker thread ends.
WorkerRaise ==
  /\ wpc = "execute"
  /\ Raises(cur.s)
  /\ wpc' = "dead"
  /\ UNCHANGED <<obj, edges, edge_config, configs, queue, cur, dirty, th, event, results, pending, calls, env>>

\* A Query.go that goes on to set the event without committing.
WorkerSkipCommit ==
  /\ wpc = "commit"
  /\ wpc' = "set"
  /\ UNCHANGED <<obj, edges, edge_config, configs, queue, cur, dirty, th, event, results, pending, calls, env>>

\* conn.commit()
WorkerCommit ==
  /\ wpc = "commit"
  /\ dirty' = FALSE
  /\ wpc' = "set"
  /\ UNCHANGED <<obj, edges, edge_config, configs, queue, cur, th, event, results, pending, calls, env>>

\* self.event.set(), and back to the top of the loop
WorkerSet ==
  /\ wpc = "set"
  /\ event' = [event EXCEPT ![cur.t] = TRUE]
  /\ pending' = Without(pending, cur.t)
  /\ cur' = NoQuery
  /\ wpc' = "get"
  /\ UNCHANGED <<obj, edges, edge_config, configs, queue, dirty, th, results, calls, env>>

----------------------------------------------------------------------------
\* Caller threads.  A thread is idle (between public calls), running, or
\* waiting in Query.get.  todo holds the steps left of the call it is in.

Ret(exc, val) == [exc |-> exc, val |-> val]

\* An idle thread keeps the last call it made, how that call ended and (read)
\* whether the last read of old edges in it found none ("empty") or some.
IdleThread(op, arg, ret, read) ==
  [pc |-> "idle", op |-> op, arg |-> arg, pre |-> {}, todo |-> <<>>, k |-> "none", ret |-> ret,
   read |-> read]

\* A public call can start in thread t.
CanCall(t) ==
  /\ t \in Env.callers
  /\ th[t].pc = "idle"
  /\ calls.n < MaxCalls

Called(edge) == [n |-> calls.n + 1, edge |-> calls.edge \/ edge]

\* The call of thread t starts; pre remembers the edge rows it started from.
Enter(t, op, arg, todo) ==
  [th EXCEPT ![t] = [pc |-> "run", op |-> op, arg |-> arg, pre |-> edges,
                     todo |-> todo, k |-> "none", ret |-> Ret("none", <<>>), read |-> "none"]]

\* The call of thread t ends by raising exc, or by returning val.
Leave(t, exc, val) ==
  [th EXCEPT ![t] = IdleThread(th[t].op, th[t].arg, Ret(exc, val), th[t].read)]

\* The call op(arg) of thread t raises exc before its first statement.
Refuse(t, op, arg, exc) == [th EXCEPT ![t] = IdleThread(op, arg, Ret(exc, <<>>), "none")]

Running(t, i) == th[t].pc = "run" /\ th[t].todo # <<>> /\ Head(th[t].todo).i = i

\* An edge_add that writes the mirror row whatever the config says.
AddPairsMirrored(e, config) ==
  <<[i |-> "add", e |-> e, c |-> config],
    [i |-> "add", e |-> Edge(e.oid2, e.oid1, e.type, e.order, e.data), c |-> config]>>

\* edge_add, lines 84-90: the physical edges to write, each with its config.
AddPairs(e, config) ==
  LET inverse_config == get_inverse(config) IN
  <<[i |-> "add", e |-> e, c |-> config]>>
  \o (IF Truthy(config.bidi)
      THEN <<[i |-> "add", e |-> Edge(e.oid2, e.oid1, e.type, e.order, e.data), c |-> config]>>
      ELSE <<>>)
  \o (IF inverse_config # NoConfig
      THEN <<[i |-> "add", e |-> Edge(e.oid2, e.oid1, inverse_config.type, e.order, e.data),
              c |-> inverse_config]>>
      ELSE <<>>)

\* edge_remove that forgets the row of the inverse type.
RemoveTriplesNoInverse(oid1, oid2, type, config) ==
  <<[i |-> "delete", k |-> <<oid1, oid2, type>>]>>
  \o (IF Truthy(config.bidi) THEN <<[i |-> "delete", k |-> <<oid2, oid1, type>>]>> ELSE <<>>)

\* edge_remove, lines 101-105: the triples to delete.
RemoveTriples(oid1, oid2, type, config) ==
  LET inverse_config == get_inverse(config) IN
  <<[i |-> "delete", k |-> <<oid1, oid2, type>>]>>
  \o (IF Truthy(config.bidi) THEN <<[i |-> "delete", k |-> <<oid2, oid1, type>>]>> ELSE <<>>)
  \o (IF inverse_config # NoConfig
      THEN <<[i |-> "delete", k |-> <<oid2, oid1, inverse_config.type>>]>>
      ELSE <<>>)

\* edge_get, lines 109-118: the select statement it builds.
EdgeGetQuery(oid, type, start, end) ==
  [sql |-> "select_edges", oid |-> oid, type |-> type,
   lo |-> IF TruthyInt(start) THEN start ELSE None,
   hi |-> IF TruthyInt(end) THEN end ELSE None]

\* edge_get, lines 120-123: the dict oid2 -> Edge built from the rows in order
\* (a later row with the same oid2 replaces an earlier one).
EdgeGetDict(rows) ==
  [o \in {rows[i].oid2 : i \in 1..Len(rows)} |->
     LET last == CHOOSE i \in 1..Len(rows) :
                   rows[i].oid2 = o /\ \A j \in 1..Len(rows) : rows[j].oid2 = o => j <= i
     IN rows[last]]

\* dict.values(): the values in the dict's own order, which the order of
\* insertion does not determine.
DictValues(d) == Perms({d[o] : o \in DOMAIN d})

InsertQuery(e) ==
  [sql |-> "insert_edge", row |-> Edge(e.oid1, e.oid2, e.type, e.order, JsonDumps(e.data))]

\* edge_add(edge), line 82 finds a config: lines 83-90.
EdgeAdd(t, e) ==
  /\ CanCall(t)
  /\ e.type \in DOMAIN configs
  /\ th' = Enter(t, "edge_add", e, AddPairs(e, configs[e.type]))
  /\ calls' = Called(TRUE)
  /\ UNCHANGED <<obj, edges, edge_config, configs, queue, wpc, cur, dirty, event, results, pending, env>>

\* edge_add that takes a default config for a type it does not know.
EdgeAddDefault(t, e) ==
  /\ CanCall(t)
  /\ e.type \notin DOMAIN configs
  /\ th' = Enter(t, "edge_add", e, AddPairs(e, EdgeConfig(e.type, "False", "False", "None", "None")))
  /\ calls' = Called(TRUE)
  /\ UNCHANGED <<obj, edges, edge_config, configs, queue, wpc, cur, dirty, event, results, pending, env>>

\* edge_add(edge), line 82 raises KeyError.
EdgeAddUnknown(t, e) ==
  /\ CanCall(t)
  /\ e.type \notin DOMAIN configs
  /\ th' = Refuse(t, "edge_add", e, "KeyError")
  /\ calls' = Called(TRUE)
  /\ UNCHANGED <<obj, edges, edge_config, configs, queue, wpc, cur, dirty, event, results, pending, env>>

\* edge_add, lines 92-94: the config is unique, fetch the old edges.
AddUnique(t) ==
  /\ Running(t, "add")
  /\ Truthy(Head(th[t].todo).c.unique)
  /\ LET e == Head(th[t].todo).e IN
       Submit(t, th, EdgeGetQuery(e.oid1, e.type, None, None), "evict",
              <<[i |-> "insert", e |-> e]>> \o Tail(th[t].todo))
  /\ UNCHANGED <<obj, edges, edge_config, configs, wpc, cur, dirty, calls, env>>

\* edge_add, lines 92 and 97: the config is not unique, insert.
AddPlain(t) ==
  /\ Running(t, "add")
  /\ ~Truthy(Head(th[t].todo).c.unique)
  /\ Submit(t, th, InsertQuery(Head(th[t].todo).e), "write", Tail(th[t].todo))
  /\ UNCHANGED <<obj, edges, edge_config, configs, wpc, cur, dirty, calls, env>>

\* edge_add, lines 94-96: edge_get returned; each old edge is to be removed.
Evict(t) ==
  /\ Woken(t, "evict")
  /\ \E old \in DictValues(EdgeGetDict(results[t])) :
       th' = [th EXCEPT ![t].pc = "run", ![t].k = "none",
                        ![t].read = IF old = <<>> THEN "empty" ELSE "some",
                        ![t].todo = [i \in 1..Len(old) |-> [i |-> "remove", e |-> old[i]]] \o @]
  /\ results' = [results EXCEPT ![t] = <<>>]
  /\ UNCHANGED <<obj, edges, edge_config, configs, queue, wpc, cur, dirty, event, pending, calls, env>>

\* edge_add, line 96: edge_remove(old_edge...), lines 99-105.  Line 99 raises
\* KeyError when the type is not in the dict (another thread is rebuilding
\* it), and the exception ends edge_add.
EvictRemove(t) ==
  /\ Running(t, "remove")
  /\ LET old == Head(th[t].todo).e IN
       th' = IF old.type \in DOMAIN configs
             THEN [th EXCEPT ![t].todo =
                     RemoveTriples(old.oid1, old.oid2, old.type, configs[old.type]) \o Tail(@)]
             ELSE Leave(t, "KeyError", <<>>)
  /\ UNCHANGED <<obj, edges, edge_config, configs, queue, wpc, cur, dirty, event, results, pending, calls, env>>

\* edge_add, line 97
Insert(t) ==
  /\ Running(t, "insert")
  /\ Submit(t, th, InsertQuery(Head(th[t].todo).e), "write", Tail(th[t].todo))
  /\ UNCHANGED <<obj, edges, edge_config, configs, wpc, cur, dirty, calls, env>>

\* edge_remove(oid1, oid2, type), line 99 finds a config: lines 100-105.
EdgeRemove(t, k) ==
  /\ CanCall(t)
  /\ k[3] \in DOMAIN configs
  /\ th' = Enter(t, "edge_remove", k, RemoveTriples(k[1], k[2], k[3], configs[k[3]]))
  /\ calls' = Called(TRUE)
  /\ UNCHANGED <<obj, edges, edge_config, configs, queue, wpc, cur, dirty, event, results, pending, env>>

\* edge_remove, line 99 raises KeyError.
EdgeRemoveUnknown(t, k) ==
  /\ CanCall(t)
  /\ k[3] \notin DOMAIN configs
  /\ th' = Refuse(t, "edge_remove", k, "KeyError")
  /\ calls' = Called(TRUE)
  /\ UNCHANGED <<obj, edges, edge_config, configs, queue, wpc, cur, dirty, event, results, pending, env>>

\* edge_remove, line 107
Delete(t) ==
  /\ Running(t, "delete")
  /\ Submit(t, th, [sql |-> "delete_edge", k |-> Head(th[t].todo).k], "write", Tail(th[t].todo))
  /\ UNCHANGED <<obj, edges, edge_config, configs, wpc, cur, dirty, calls, env>>

\* conn.query returned from a statement whose rows the caller does not read.
Written(t) ==
  /\ Woken(t, "write")
  /\ th' = [th EXCEPT ![t].pc = "run", ![t].k = "none"]
  /\ results' = [results EXCEPT ![t] = <<>>]
  /\ UNCHANGED <<obj, edges, edge_config, configs, queue, wpc, cur, dirty, event, pending, calls, env>>

\* The public call of thread t has nothing left to do and returns None.
Return(t) ==
  /\ th[t].pc = "run"
  /\ th[t].todo = <<>>
  /\ th' = Leave(t, "ok", <<>>)
  /\ UNCHANGED <<obj, edges, edge_config, configs, queue, wpc, cur, dirty, event, results, pending, calls, env>>

\* edge_get(oid, type, start, end), lines 109-119
EdgeGet(t, g) ==
  /\ CanCall(t)
  /\ Submit(t, Enter(t, "edge_get", g, <<>>), EdgeGetQuery(g.oid, g.type, g.start, g.end), "get", <<>>)
  /\ calls' = Called(FALSE)
  /\ UNCHANGED <<obj, edges, edge_config, configs, wpc, cur, dirty, env>>

\* edge_get, lines 120-123: the dict is returned.
EdgeGetReturn(t) ==
  /\ Woken(t, "get")
  /\ th' = Leave(t, "ok", EdgeGetDict(results[t]))
  /\ results' = [results EXCEPT ![t] = <<>>]
  /\ UNCHANGED <<obj, edges, edge_config, configs, queue, wpc, cur, dirty, event, pending, calls, env>>

\* edge_get_one(oid, type), line 125 up to the query of edge_get
EdgeGetOne(t, g) ==
  /\ CanCall(t)
  /\ Submit(t, Enter(t, "edge_get_one", g, <<>>), EdgeGetQuery(g.oid, g.type, None, None), "get_one", <<>>)
  /\ calls' = Called(FALSE)
  /\ UNCHANGED <<obj, edges, edge_config, configs, wpc, cur, dirty, env>>

\* edge_get_one, lines 125-127: edges[0] of the dict's values.
EdgeGetOneReturn(t) ==
  /\ Woken(t, "get_one")
  /\ DOMAIN EdgeGetDict(results[t]) # {}
  /\ \E vs \in DictValues(EdgeGetDict(results[t])) : th' = Leave(t, "ok", vs[1])
  /\ results' = [results EXCEPT ![t] = <<>>]
  /\ UNCHANGED <<obj, edges, edge_config, configs, queue, wpc, cur, dirty, event, pending, calls, env>>

\* edge_get_one, line 126: the assertion fails on an empty dict.
EdgeGetOneNone(t) ==
  /\ Woken(t, "get_one")
  /\ DOMAIN EdgeGetDict(results[t]) = {}
  /\ th' = Leave(t, "AssertionError", <<>>)
  /\ results' = [results EXCEPT ![t] = <<>>]
  /\ UNCHANGED <<obj, edges, edge_config, configs, queue, wpc, cur, dirty, event, pending, calls, env>>

\* edge_config_add(EdgeConfig(...)), lines 130-133: the configs to write,
\* and the refresh after them.
ConfigsToWrite(config) ==
  <<[i |-> "write", c |-> config]>>
  \o (IF get_inverse(config) # NoConfig THEN <<[i |-> "write", c |-> get_inverse(config)]>> ELSE <<>>)
  \o <<[i |-> "clear"], [i |-> "load"]>>

CanRegister(t) == CanCall(t) /\ (Env.regFirst => ~calls.edge)

EdgeConfigAdd(t, a) ==
  /\ CanRegister(t)
  /\ ConfigAssert(a.bidi, a.inverse_type)
  /\ th' = Enter(t, "edge_config_add", a, ConfigsToWrite(a))
  /\ calls' = Called(FALSE)
  /\ UNCHANGED <<obj, edges, edge_config, configs, queue, wpc, cur, dirty, event, results, pending, env>>

\* A constructor without the assertion: the config goes on to be written.
EdgeConfigUnchecked(t, a) ==
  /\ CanRegister(t)
  /\ ~ConfigAssert(a.bidi, a.inverse_type)
  /\ th' = Enter(t, "edge_config_add", a, ConfigsToWrite(a))
  /\ calls' = Called(FALSE)
  /\ UNCHANGED <<obj, edges, edge_config, configs, queue, wpc, cur, dirty, event, results, pending, env>>

\* EdgeConfig(...) raises AssertionError at line 10, before edge_config_add is entered.
EdgeConfigInvalid(t, a) ==
  /\ CanRegister(t)
  /\ ~ConfigAssert(a.bidi, a.inverse_type)
  /\ th' = Refuse(t, "edge_config_add", a, "AssertionError")
  /\ calls' = Called(FALSE)
  /\ UNCHANGED <<obj, edges, edge_config, configs, queue, wpc, cur, dirty, event, results, pending, env>>

\* edge_config_add, lines 135-136
ConfigWrite(t) ==
  /\ Running(t, "write")
  /\ Submit(t, th, [sql |-> "upsert_config", row |-> Head(th[t].todo).c], "write", Tail(th[t].todo))
  /\ UNCHANGED <<obj, edges, edge_config, configs, wpc, cur, dirty, calls, env>>

\* refresh_edge_config, line 139
RefreshClear(t) ==
  /\ Running(t, "clear")
  /\ configs' = <<>>
  /\ th' = [th EXCEPT ![t].todo = Tail(@)]
  /\ UNCHANGED <<obj, edges, edge_config, queue, wpc, cur, dirty, event, results, pending, calls, env>>

\* refresh_edge_config, line 140
RefreshLoad(t) ==
  /\ Running(t, "load")
  /\ Submit(t, th, [sql |-> "select_configs"], "refresh", Tail(th[t].todo))
  /\ UNCHANGED <<obj, edges, edge_config, configs, wpc, cur, dirty, calls, env>>

\* refresh_edge_config, line 141: the rows to go through
RefreshLoaded(t) ==
  /\ Woken(t, "refresh")
  /\ th' = [th EXCEPT ![t].pc = "run", ![t].k = "none",
                      ![t].todo = [i \in 1..Len(results[t]) |-> [i |-> "fill", c |-> results[t][i]]] \o @]
  /\ results' = [results EXCEPT ![t] = <<>>]
  /\ UNCHANGED <<obj, edges, edge_config, configs, queue, wpc, cur, dirty, event, pending, calls, env>>

DictSet(d, key, v) == [x \in DOMAIN d \cup {key} |-> IF x = key THEN v ELSE d[x]]

\* refresh_edge_config, line 142
RefreshFill(t) ==
  /\ Running(t, "fill")
  /\ LET c == Head(th[t].todo).c IN
       configs' = DictSet(configs, c.type,
                          EdgeConfig(c.type, c.unique, c.bidi, c.inverse_type, c.inverse_unique))
  /\ th' = [th EXCEPT ![t].todo = Tail(@)]
  /\ UNCHANGED <<obj, edges, edge_config, queue, wpc, cur, dirty, event, results, pending, calls, env>>

\* obj_put(oid, value)
ObjPut(t, o) ==
  /\ CanCall(t)
  /\ Submit(t, Enter(t, "obj_put", o, <<>>),
            [sql |-> "upsert_obj", row |-> [oid |-> o.oid, data |-> JsonDumps(o.value)]], "write", <<>>)
  /\ calls' = Called(FALSE)
  /\ UNCHANGED <<obj, edges, edge_config, configs, wpc, cur, dirty, env>>

\* obj_delete(oid)
ObjDelete(t, oid) ==
  /\ CanCall(t)
  /\ Submit(t, Enter(t, "obj_delete", oid, <<>>), [sql |-> "delete_obj", oid |-> oid], "write", <<>>)
  /\ calls' = Called(FALSE)
  /\ UNCHANGED <<obj, edges, edge_config, configs, wpc, cur, dirty, env>>

\* obj_get(oid), line 74
ObjGet(t, oid) ==
  /\ CanCall(t)
  /\ Submit(t, Enter(t, "obj_get", oid, <<>>), [sql |-> "select_obj", oid |-> oid], "obj_get", <<>>)
  /\ calls' = Called(FALSE)
  /\ UNCHANGED <<obj, edges, edge_config, configs, wpc, cur, dirty, env>>

\* obj_get, lines 75-76 with a row
ObjGetReturn(t) ==
  /\ Woken(t, "obj_get")
  /\ Len(results[t]) > 0
  /\ th' = Leave(t, "ok", JsonLoads(results[t][1].data))
  /\ results' = [results EXCEPT ![t] = <<>>]
  /\ UNCHANGED <<obj, edges, edge_config, configs, queue, wpc, cur, dirty, event, pending, calls, env>>

\* obj_get, line 75: the assertion fails
ObjGetNone(t) ==
  /\ Woken(t, "obj_get")
  /\ Len(results[t]) = 0
  /\ th' = Leave(t, "AssertionError", <<>>)
  /\ results' = [results EXCEPT ![t] = <<>>]
  /\ UNCHANGED <<obj, edges, edge_config, configs, queue, wpc, cur, dirty, event, pending, calls, env>>

----------------------------------------------------------------------------
\* Specifications

\* The state after GNB(filename): the tables exist, configs was loaded from
\* the edge_config table (reg; empty for a new database), the worker runs.
Start(reg, e) ==
  /\ obj = {}
  /\ edges = {}
  /\ edge_config = reg
  /\ configs = [ty \in {r.type : r \in reg} |-> CHOOSE r \in reg : r.type = ty]
  /\ queue = <<>>
  /\ wpc = "get"
  /\ cur = NoQuery
  /\ dirty = FALSE
  /\ th = [t \in Threads |-> IdleThread("none", <<>>, Ret("none", <<>>), "none")]
  /\ event = [t \in Threads |-> FALSE]
  /\ results = [t \in Threads |-> <<>>]
  /\ pending = <<>>
  /\ calls = [n |-> 0, edge |-> FALSE]
  /\ env = e

Caller(t) ==
  \/ CanCall(t) /\ \E e \in Env.adds : EdgeAdd(t, e)
  \/ CanCall(t) /\ \E e \in Env.adds : EdgeAddUnknown(t, e)
  \/ AddUnique(t)
  \/ AddPlain(t)
  \/ Evict(t)
  \/ EvictRemove(t)
  \/ Insert(t)
  \/ CanCall(t) /\ \E k \in Env.rems : EdgeRemove(t, k)
  \/ CanCall(t) /\ \E k \in Env.rems : EdgeRemoveUnknown(t, k)
  \/ Delete(t)
  \/ Written(t)
  \/ Return(t)
  \/ CanCall(t) /\ \E g \in Env.gets : EdgeGet(t, g)
  \/ EdgeGetReturn(t)
  \/ CanCall(t) /\ \E g \in Env.ones : EdgeGetOne(t, g)
  \/ EdgeGetOneReturn(t)
  \/ EdgeGetOneNone(t)
  \/ CanCall(t) /\ \E a \in Env.cfgs : EdgeConfigAdd(t, a)
  \/ CanCall(t) /\ \E a \in Env.cfgs : EdgeConfigInvalid(t, a)
  \/ ConfigWrite(t)
  \/ RefreshClear(t)
  \/ RefreshLoad(t)
  \/ RefreshLoaded(t)
  \/ RefreshFill(t)
  \/ CanCall(t) /\ \E o \in Env.puts : ObjPut(t, o)
  \/ CanCall(t) /\ \E o \in Env.oids : ObjDelete(t, o)
  \/ CanCall(t) /\ \E o \in Env.oids : ObjGet(t, o)
  \/ ObjGetReturn(t)
  \/ ObjGetNone(t)

Worker == WorkerGet \/ WorkerExecute \/ WorkerRaise \/ WorkerCommit \/ WorkerSet

Next == (\E t \in Threads : Caller(t)) \/ Worker

Init == Start({}, "seq")

Spec == Init /\ [][Next]_vars

\* A database that already holds the plain type T is opened.
RangeInit == Start({PlainT}, "range")

RangeSpec == RangeInit /\ [][Next]_vars

\* A database that already holds the unique type T is opened, and two threads use it.
ConcInit == Start({UniqueT}, "conc")

ConcSpec == ConcInit /\ [][Next]_vars

\* A database that holds the plain type T and the bidi type T2 is opened, and
\* two threads use it.
MirrorInit == Start({PlainT, BidiT2}, "mirror")

MirrorSpec == MirrorInit /\ [][Next]_vars

----------------------------------------------------------------------------
\* Properties

HasRow(a, b, ty) == \E r \in edges : Key(r) = <<a, b, ty>>
Keys(E) == {Key(r) : r \in E}
RowsFrom(a, ty) == {r \in edges : r.oid1 = a /\ r.type = ty}

\* Every caller is between two public calls.
Quiet == \A t \in Threads : th[t].pc = "idle"

\* The call of thread t has run all its statements and is about to return.
Done(t) == th[t].pc = "run" /\ th[t].todo = <<>>

\* C1: for a type registered bidi, between calls the row (a,b,T) exists iff
\* the row (b,a,T) exists.
C1_BidiMirrored ==
  Quiet =>
    \A ty \in DOMAIN configs :
      Truthy(configs[ty].bidi) =>
        \A a, b \in Oids : HasRow(a, b, ty) <=> HasRow(b, a, ty)

\* C3: between calls, a type whose registered config is unique has at most
\* one row per source.
C3_UniqueAtMostOne ==
  Quiet =>
    \A ty \in DOMAIN configs :
      Truthy(configs[ty].unique) =>
        \A a \in Oids : Cardinality(RowsFrom(a, ty)) <= 1

\* ty is registered with inverse type ty2, and ty2 holds the config that
\* registration derived for it.
Paired(ty, ty2) ==
  /\ ty # ty2
  /\ ty \in DOMAIN configs
  /\ ty2 \in DOMAIN configs
  /\ configs[ty].inverse_type = ty2
  /\ configs[ty2] = get_inverse(configs[ty])

\* C2: for a type ty registered with inverse type ty2, between calls the row
\* (a,b,ty) exists iff the row (b,a,ty2) exists; add_edge(a,b,ty) on an empty
\* table leaves exactly the rows (a,b,ty) and (b,a,ty2), and remove_edge(a,b,ty)
\* from there leaves no row.
C2_InverseMirrored ==
  /\ Quiet =>
       \A ty, ty2 \in Types :
         Paired(ty, ty2) => \A a, b \in Oids : HasRow(a, b, ty) <=> HasRow(b, a, ty2)
  /\ \A t \in Threads :
       (Done(t) /\ th[t].op = "edge_add") =>
         LET e == th[t].arg IN
         \A ty2 \in Types :
           (Paired(e.type, ty2) /\ e.oid1 # e.oid2 /\ th[t].pre = {}) =>
             Keys(edges) = {<<e.oid1, e.oid2, e.type>>, <<e.oid2, e.oid1, ty2>>}
  /\ \A t \in Threads :
       (Done(t) /\ th[t].op = "edge_remove") =>
         LET k == th[t].arg IN
         \A ty2 \in Types :
           (Paired(k[3], ty2) /\ Keys(th[t].pre) = {k, <<k[2], k[1], ty2>>}) => edges = {}

\* A remove_edge(a,b,ty) on a paired type is about to return, and it started
\* from the two rows of an add_edge(a,b,ty).
C2_Witness ==
  \E t \in Threads :
    /\ Done(t)
    /\ th[t].op = "edge_remove"
    /\ \E ty2 \in Types :
         /\ Paired(th[t].arg[3], ty2)
         /\ Keys(th[t].pre) = {th[t].arg, <<th[t].arg[2], th[t].arg[1], ty2>>}
         /\ th[t].arg[1] # th[t].arg[2]

\* C5: an add_edge whose row (a,b,T) already exists does not fail, and when it
\* returns the table holds exactly one row (a,b,T), with the new order and payload.
C5_AddReplaces ==
  \A t \in Threads :
    (th[t].op = "edge_add" /\ th[t].pc # "idle" /\ Key(th[t].arg) \in Keys(th[t].pre)) =>
      /\ wpc # "dead"
      /\ Done(t) =>
           {r \in edges : Key(r) = Key(th[t].arg)} =
             {Edge(th[t].arg.oid1, th[t].arg.oid2, th[t].arg.type, th[t].arg.order,
                   JsonDumps(th[t].arg.data))}

\* The edge type an edge call was made with.
CallType(c) == IF c.op = "edge_add" THEN c.arg.type ELSE c.arg[3]

\* C10: an add_edge or remove_edge with a type that is not in the registry
\* raises at once, puts nothing on the queue and changes no table and not the registry.
C10_UnknownTypeRefused ==
  [][\A t \in Threads :
       (/\ th[t].pc = "idle"
        /\ th'[t] # th[t]
        /\ th'[t].op \in {"edge_add", "edge_remove"}
        /\ CallType(th'[t]) \notin DOMAIN configs)
       => /\ th'[t].pc = "idle"
          /\ th'[t].ret.exc = "KeyError"
          /\ UNCHANGED <<obj, edges, edge_config, configs, queue>>]_vars

\* Both an add_edge and a remove_edge were refused for an unknown type.
C10_Witness ==
  \E t \in Threads :
    /\ th[t].pc = "idle"
    /\ th[t].op = "edge_remove"
    /\ th[t].ret.exc = "KeyError"
    /\ "T" \in DOMAIN configs

\* The rows of edges from oid of the type whose order is within the bounds given.
InBounds(r, start, end) ==
  /\ start # None => (r.order # None /\ r.order[1] >= start[1])
  /\ end # None => (r.order # None /\ r.order[1] <= end[1])

\* C8: edge_get(oid, type, start, end) returns exactly the rows from oid of
\* the type whose order is >= start when start is given and <= end when end is given.
C8_RangeExact ==
  \A t \in Threads :
    (th[t].pc = "idle" /\ th[t].op = "edge_get") =>
      LET g == th[t].arg
          d == th[t].ret.val
      IN {d[o] : o \in DOMAIN d} = {r \in RowsFrom(g.oid, g.type) : InBounds(r, g.start, g.end)}

\* C9: edge_get_one returns the edge of lowest order when there is one, and
\* fails when there is none.
C9_GetOneLowest ==
  \A t \in Threads :
    (th[t].pc = "idle" /\ th[t].op = "edge_get_one") =>
      LET rows == RowsFrom(th[t].arg.oid, th[t].arg.type) IN
      IF rows = {} THEN th[t].ret.exc = "AssertionError"
      ELSE /\ th[t].ret.exc = "ok"
           /\ th[t].ret.val \in rows
           /\ \A r \in rows :
                (r.order # None /\ th[t].ret.val.order # None) =>
                  th[t].ret.val.order[1] <= r.order[1]

\* The two calls add_edge(a, b, T) and add_edge(a, c, T) are the only calls made,
\* both found no old edge to evict and both have returned.
BothAdded ==
  /\ calls.n = 2
  /\ \A t \in Threads :
       /\ th[t].pc = "idle"
       /\ th[t].op = "edge_add"
       /\ th[t].read = "empty"
       /\ th[t].ret.exc = "ok"
  /\ {Key(th[t].arg) : t \in Threads} = {<<"a", "b", "T">>, <<"a", "c", "T">>}

\* C4: when two threads add a->b and a->c of a unique type concurrently and
\* both read an empty set of old edges, both insert, and after both calls
\* returned both rows exist although the type is unique.
C4_UniqueRace ==
  (BothAdded /\ Truthy(configs["T"].unique)) =>
    HasRow("a", "b", "T") /\ HasRow("a", "c", "T")

\* Both calls returned after reading no old edge, and a has two edges of unique type T.
C4_Witness ==
  /\ BothAdded
  /\ Truthy(configs["T"].unique)
  /\ Cardinality(RowsFrom("a", "T")) = 2

\* The worker and every thread inside a call keep being scheduled.
FairSpec ==
  /\ ConcInit
  /\ [][Next]_vars
  /\ WF_vars(Worker)
  /\ \A t \in Threads : WF_vars(th[t].pc # "idle" /\ Caller(t))

\* C6: under fair scheduling every caller that waits for its statement is
\* eventually unblocked, also when an earlier statement failed in the store.
C6_EventuallyCompleted ==
  \A t \in Threads : (th[t].pc = "wait") ~> (th[t].pc # "wait")

\* The threads whose Query is in the queue, in queue order.
Queued == [i \in 1..Len(queue) |-> queue[i].t]

\* C7: statements are executed one at a time in the order they were put: the
\* worker holds the oldest unfinished one, the queue the rest in the order
\* of arrival, and a statement is taken or executed only when the one before
\* it has been committed.
C7_Fifo ==
  /\ pending = (IF cur = NoQuery THEN <<>> ELSE <<cur.t>>) \o Queued
  /\ wpc \in {"get", "execute"} => ~dirty

\* The worker executes the statement of one thread while the other's waits in the queue.
C7_Witness ==
  /\ wpc = "execute"
  /\ Len(queue) = 1
  /\ pending = <<cur.t, queue[1].t>>
  /\ cur.t # queue[1].t

\* Thread t is the only thread that has made calls so far.
OnlyCaller(t) == \A u \in Threads \ {t} : th[u].op = "none"

\* C11: with one caller, a remove_edge(a,b,T) for a registered T whose row
\* (a,b,T) does not exist does not fail and leaves the edge table as it was.
C11_RemoveAbsent ==
  \A t \in Threads :
    (/\ OnlyCaller(t)
     /\ th[t].op = "edge_remove"
     /\ th[t].pc # "idle"
     /\ th[t].arg \notin Keys(th[t].pre)) =>
      /\ wpc # "dead"
      /\ Done(t) => edges = th[t].pre

\* C12: registering a config with both bidi and inverse_type set fails at
\* once, writes nothing to the edge_config table and leaves the registry as it was.
C12_InvalidRefused ==
  [][\A t \in Threads :
       (/\ th[t].pc = "idle"
        /\ th'[t] # th[t]
        /\ th'[t].op = "edge_config_add"
        /\ Truthy(th'[t].arg.bidi)
        /\ th'[t].arg.inverse_type # "None")
       => /\ th'[t].pc = "idle"
          /\ th'[t].ret.exc = "AssertionError"
          /\ UNCHANGED <<obj, edges, edge_config, configs, queue>>]_vars

\* An invalid config was refused while the registry held a type.
C12_Witness ==
  \E t \in Threads :
    /\ th[t].pc = "idle"
    /\ th[t].op = "edge_config_add"
    /\ Truthy(th[t].arg.bidi)
    /\ th[t].arg.inverse_type # "None"
    /\ th[t].ret.exc = "AssertionError"
    /\ DOMAIN configs # {}
    /\ edge_config # {}

\* A config that is not unique, not bidi and has no inverse.
Plain(c) == ~Truthy(c.unique) /\ ~Truthy(c.bidi) /\ c.inverse_type = "None"

\* The add_edge(a,b,T) of thread t is on a plain type T, a # b, and the row
\* (a,b,T) did not exist when the call began.
PlainAdd(t) ==
  /\ th[t].op = "edge_add"
  /\ th[t].arg.type \in DOMAIN configs
  /\ Plain(configs[th[t].arg.type])
  /\ th[t].arg.oid1 # th[t].arg.oid2
  /\ Key(th[t].arg) \notin Keys(th[t].pre)

\* C13: an add_edge(a,b,T) on a plain type, a # b, with no row (a,b,T) before,
\* adds exactly the row (a,b,T) to the edge table and changes nothing else.
C13_PlainAddFrame ==
  \A t \in Threads :
    (Done(t) /\ PlainAdd(t)) =>
      edges = th[t].pre \cup {Edge(th[t].arg.oid1, th[t].arg.oid2, th[t].arg.type,
                                   th[t].arg.order, JsonDumps(th[t].arg.data))}

\* Such an add_edge returns when the table already held other rows.
C13_Witness ==
  \E t \in Threads :
    /\ Done(t)
    /\ PlainAdd(t)
    /\ th[t].pre # {}
    /\ Cardinality(edges) = Cardinality(th[t].pre) + 1

\* C14: a write is committed before its event is set: while the connection
\* holds an uncommitted change the worker is between execute and commit of
\* that statement, its caller is still blocked in Query.get with the event
\* clear, and so no other statement runs before the commit.
C14_CommitBeforeSignal ==
  dirty =>
    /\ wpc = "commit"
    /\ IsWrite(cur.s)
    /\ ~event[cur.t]
    /\ th[cur.t].pc = "wait"

\* A write is executed and not yet committed while another thread's statement waits in the queue.
C14_Witness ==
  /\ dirty
  /\ queue # <<>>
  /\ queue[1].t # cur.t

\* C15: object calls and edge calls do not touch each other's data: a step
\* that changes the edge table belongs to an add_edge or remove_edge call, a
\* step that changes the edge_config table or the registry belongs to a
\* register call, and a step that changes the obj table belongs to a
\* put_object or delete_object call.
C15_ObjEdgeSeparate ==
  [][/\ edges' # edges => th[cur.t].op \in {"edge_add", "edge_remove"}
     /\ edge_config' # edge_config => th[cur.t].op = "edge_config_add"
     /\ obj' # obj => th[cur.t].op \in {"obj_put", "obj_delete"}
     /\ configs' # configs =>
          \E t \in Threads : th'[t] # th[t] /\ th[t].op = "edge_config_add"]_vars

\* delete_object(a) has returned and an edge from a is still there.
C15_Witness ==
  \E t \in Threads :
    /\ th[t].pc = "idle"
    /\ th[t].op = "obj_delete"
    /\ th[t].ret.exc = "ok"
    /\ \E r \in edges : r.oid1 = th[t].arg

\* C16: the type T is in the edge_config table from the start and no register
\* call writes it, so an add_edge or remove_edge on T never fails with
\* KeyError, also while another thread registers a type.
C16_RegistryAtomic ==
  \A t \in Threads :
    (/\ th[t].pc = "idle"
     /\ th[t].op \in {"edge_add", "edge_remove"}
     /\ CallType(th[t]) = "T"
     /\ \A u \in Threads : th[u].op = "edge_config_add" => th[u].arg.type # "T") =>
      th[t].ret.exc # "KeyError"

\* The add_edge of thread v has had its read of old edges executed and is
\* about to put a further statement (a delete or the insert) on the queue.
Mid(v) ==
  /\ th[v].op = "edge_add"
  /\ th[v].read # "none"
  /\ Running(v, "insert") \/ Running(v, "delete")

\* C17: the statements of one add_edge or remove_edge call are executed
\* contiguously: the worker never executes a statement of another thread's
\* add_edge or remove_edge between the first and the last statement of a call.
C17_Contiguous ==
  \A u, v \in Threads :
    (/\ u # v
     /\ wpc = "commit"
     /\ cur.t = u
     /\ th[u].op \in {"edge_add", "edge_remove"}) =>
      ~Mid(v)

\* Two configs agree in all five fields (the booleans by their truth value,
\* as the table gives 0 and 1 back for False and True).
SameConfig(c, d) ==
  /\ c.type = d.type
  /\ Truthy(c.unique) = Truthy(d.unique)
  /\ Truthy(c.bidi) = Truthy(d.bidi)
  /\ c.inverse_type = d.inverse_type
  /\ Truthy(c.inverse_unique) = Truthy(d.inverse_unique)

\* C18: after register_edge_type(config) has returned, the registry holds
\* for config.type a config equal to the registered one in all five fields.
C18_ReadYourWrites ==
  \A t \in Threads :
    (th[t].pc = "idle" /\ th[t].op = "edge_config_add" /\ th[t].ret.exc = "ok") =>
      /\ th[t].arg.type \in DOMAIN configs
      /\ SameConfig(configs[th[t].arg.type], th[t].arg)

\* Deriving the inverse of c gives the config registered for c.inverse_type.
PartnerOf(c) ==
  /\ c.inverse_type \in DOMAIN configs
  /\ LET p == configs[c.inverse_type] IN
       /\ p.inverse_type = c.type
       /\ Truthy(p.unique) = Truthy(c.inverse_unique)
       /\ Truthy(p.inverse_unique) = Truthy(c.unique)
       /\ ~Truthy(p.bidi)

\* C19: between register calls, every registered config that has an
\* inverse_type has its partner registered for that type.
C19_RegistryPaired ==
  (Quiet /\ ~calls.edge) =>
    \A ty \in DOMAIN configs :
      configs[ty].inverse_type # "None" => PartnerOf(configs[ty])

\* Every call made so far was an add_edge or remove_edge on the type ty, each
\* thread made at most one, and all of them have returned without failing.
OnlyEdgeCallsOn(ty) ==
  /\ calls.n = Cardinality({t \in Threads : th[t].op # "none"})
  /\ \A t \in Threads :
       th[t].op # "none" =>
         /\ th[t].pc = "idle"
         /\ th[t].op \in {"edge_add", "edge_remove"}
         /\ CallType(th[t]) = ty
         /\ th[t].ret.exc = "ok"

\* C20: with the registry fixed and threads calling add_edge and remove_edge
\* concurrently on the same pair of the bidi type T2, once all calls have
\* returned the row (a,b,T2) exists iff the row (b,a,T2) exists.
C20_ConcurrentMirror ==
  (OnlyEdgeCallsOn("T2") /\ "T2" \in DOMAIN configs /\ Truthy(configs["T2"].bidi)) =>
    \A a, b \in Oids : HasRow(a, b, "T2") <=> HasRow(b, a, "T2")

====
